---- MODULE Spec2Model ----
(***************************************************************************)
(* Model of blaze/expr/datetime.py (datetime accessors, time-unit          *)
(* normalisation, truncate) and blaze/expr/scalar/parser.py (exprify and   *)
(* the BlazeParser syntax-tree visitor).                                   *)
(*                                                                         *)
(* Python strings are sequences of one-character strings, so that lower,   *)
(* strip, rstrip, startswith and s[-1] are computed as Python computes     *)
(* them.  Every Python call has an outcome record: exc is the name of the  *)
(* exception that ended it ("" when it returned), val the value returned.  *)
(***************************************************************************)
EXTENDS Integers, Sequences, FiniteSets, TLC

VARIABLES pc, op, arg, result

vars == <<pc, op, arg, result>>

(***************************************************************************)
(* Bounds of the inputs.                                                   *)
(***************************************************************************)
\* trailing "s" characters appended to a unit token
MaxPlural == 3
\* whitespace characters put before, inside and after a unit token
MaxPad == 1
\* nesting depth of the syntax trees handed to exprify
MaxDepth == 2

(***************************************************************************)
(* Python values.                                                          *)
(***************************************************************************)
NoneV == [kind |-> "None", cls |-> "NoneType", id |-> <<>>, dtype |-> "", n |-> 0, kids |-> <<>>]

IntV(i) == [kind |-> "int", cls |-> "int", id |-> <<>>, dtype |-> "", n |-> i, kids |-> <<>>]

StrV(s) == [kind |-> "str", cls |-> "str", id |-> s, dtype |-> "", n |-> 0, kids |-> <<>>]

DictV == [kind |-> "dict", cls |-> "dict", id |-> <<>>, dtype |-> "", n |-> 0, kids |-> <<>>]

ClassV(name) == [kind |-> "class", cls |-> name, id |-> <<>>, dtype |-> "", n |-> 0, kids |-> <<>>]

InstV(cls, children) == [kind |-> "instance", cls |-> cls, id |-> <<>>, dtype |-> "", n |-> 0, kids |-> children]

ScalarSymbol(name, dtype) == [kind |-> "instance", cls |-> "ScalarSymbol", id |-> name, dtype |-> dtype, n |-> 0, kids |-> <<>>]

\* the class object blaze.expr.expressions.Expr, imported by datetime.py
Expr == ClassV("Expr")

(***************************************************************************)
(* Outcomes of calls.                                                      *)
(***************************************************************************)
Ok(v) == [exc |-> "", msg |-> "", val |-> v, dtype |-> "", depth |-> 0, stages |-> <<>>]

Raise(e, m) == [exc |-> e, msg |-> m, val |-> NoneV, dtype |-> "", depth |-> 0, stages |-> <<>>]

NoResult == Raise("", "pending")

(***************************************************************************)
(* str.lower, str.strip, str.rstrip('s')                                   *)
(***************************************************************************)
UpperChars == <<"A","B","C","D","E","F","G","H","I","J","K","L","M","N","O","P","Q","R","S","T","U","V","W","X","Y","Z">>

LowerChars == <<"a","b","c","d","e","f","g","h","i","j","k","l","m","n","o","p","q","r","s","t","u","v","w","x","y","z">>

Whitespace == {" ", "\t", "\n", "\r"}

lower_char(c) ==
    IF \E i \in 1..Len(UpperChars) : UpperChars[i] = c
    THEN LowerChars[CHOOSE i \in 1..Len(UpperChars) : UpperChars[i] = c]
    ELSE c

lower(s) == [i \in 1..Len(s) |-> lower_char(s[i])]

\* s with every trailing character of the set chars removed
rstrip_chars(s, chars) ==
    LET keep == {i \in 1..Len(s) : s[i] \notin chars}
        last == IF keep = {} THEN 0 ELSE CHOOSE i \in keep : \A j \in keep : j <= i
    IN  SubSeq(s, 1, last)

\* s with every leading character of the set chars removed
lstrip_chars(s, chars) ==
    LET keep == {i \in 1..Len(s) : s[i] \notin chars}
        first == IF keep = {} THEN Len(s) + 1 ELSE CHOOSE i \in keep : \A j \in keep : i <= j
    IN  SubSeq(s, first, Len(s))

strip(s) == lstrip_chars(rstrip_chars(s, Whitespace), Whitespace)

rstrip_s(s) == rstrip_chars(s, {"s"})

startswith_dunder(name) == Len(name) >= 2 /\ name[1] = "_" /\ name[2] = "_"

(***************************************************************************)
(* datetime.py: units, aliases, normalize_time_unit                        *)
(***************************************************************************)
u_year == <<"y","e","a","r">>
u_month == <<"m","o","n","t","h">>
u_week == <<"w","e","e","k">>
u_day == <<"d","a","y">>
u_hour == <<"h","o","u","r">>
u_minute == <<"m","i","n","u","t","e">>
u_second == <<"s","e","c","o","n","d">>
u_millisecond == <<"m","i","l","l","i">> \o u_second
u_microsecond == <<"m","i","c","r","o">> \o u_second
u_nanosecond == <<"n","a","n","o">> \o u_second

units == <<u_year, u_month, u_week, u_day, u_hour, u_minute, u_second, u_millisecond, u_microsecond, u_nanosecond>>

UnitSet == {units[i] : i \in 1..Len(units)}

\* list.index
units_index(u) == CHOOSE i \in 1..Len(units) : units[i] = u

unit_aliases ==
    ( <<"y">> :> u_year @@ <<"w">> :> u_week @@ <<"d">> :> u_day
      @@ <<"d","a","t","e">> :> u_day @@ <<"h">> :> u_hour @@ <<"s">> :> u_second
      @@ <<"m","s">> :> u_millisecond @@ <<"u","s">> :> u_microsecond
      @@ <<"n","s">> :> u_nanosecond )

RECURSIVE normalize_time_unit(_)
normalize_time_unit(s0) ==
    LET s == strip(lower(s0))
    IN  IF s \in UnitSet THEN Ok(StrV(s))
        ELSE IF s \in DOMAIN unit_aliases THEN Ok(StrV(unit_aliases[s]))
        ELSE IF s = <<>> THEN Raise("IndexError", "string index out of range")
        ELSE IF s[Len(s)] = "s"
             THEN LET r == normalize_time_unit(rstrip_s(s))
                  IN  [r EXCEPT !.depth = @ + 1]
        ELSE Raise("ValueError", "Do not understand time unit")

(***************************************************************************)
(* datetime.py: the accessor classes and their constructor functions       *)
(***************************************************************************)
\* the class attribute _dtype of each DateTime subclass
DateTime_dtype ==
    [c \in {"Date", "Year", "Month", "Day", "Time", "Hour", "Minute", "Second",
            "Millisecond", "Microsecond", "UTCFromTimestamp"} |->
        CASE c = "Date" -> "date"
          [] c = "Time" -> "time"
          [] c \in {"Millisecond", "Microsecond"} -> "int64"
          [] c = "UTCFromTimestamp" -> "datetime"
          [] OTHER -> "int32"]

date(expr) == InstV("Date", <<expr>>)

year(expr) == InstV("Year", <<expr>>)

month(expr) == InstV("Month", <<expr>>)

day(expr) == InstV("Day", <<expr>>)

time(expr) == InstV("Time", <<Expr>>)

hour(expr) == InstV("Hour", <<expr>>)

minute(expr) == InstV("Minute", <<expr>>)

second(expr) == InstV("Second", <<expr>>)

millisecond(expr) == InstV("Millisecond", <<expr>>)

microsecond(expr) == InstV("Microsecond", <<expr>>)

utcfromtimestamp(expr) == InstV("UTCFromTimestamp", <<expr>>)

(***************************************************************************)
(* datetime.py: DateTimeTruncate and truncate                              *)
(***************************************************************************)
\* DateTimeTruncate._dtype with > for >=: day would give a datetime
DateTimeTruncate_dtype_strict(unit) ==
    IF units_index(u_day) > units_index(unit) THEN "date" ELSE "datetime"

\* the property DateTimeTruncate._dtype, from the unit slot of the node
DateTimeTruncate_dtype(unit) ==
    IF units_index(u_day) >= units_index(unit) THEN "date" ELSE "datetime"

\* a DateTimeTruncate node: slots _child, measure, unit
DateTimeTruncate(child, measure, unit) == InstV("DateTimeTruncate", <<child, measure, unit>>)

\* args: the positional arguments after expr; kwargs: the keyword arguments, a
\* sequence of <<key, value>> pairs
truncate(expr, args, kwargs) ==
    IF args # <<>> /\ kwargs # <<>> THEN Raise("AssertionError", "")
    ELSE IF args # <<>> /\ Len(args) # 2 THEN Raise("ValueError", "unpack")
    ELSE IF kwargs # <<>> /\ Len(kwargs) # 1 THEN Raise("ValueError", "unpack")
    ELSE IF args = <<>> /\ kwargs = <<>> THEN Raise("UnboundLocalError", "unit")
    ELSE LET measure == IF args # <<>> THEN args[1] ELSE kwargs[1][2]
             unit == IF args # <<>> THEN args[2] ELSE StrV(kwargs[1][1])
         IN  IF unit.kind # "str" THEN Raise("AttributeError", "lower")
             ELSE LET r == normalize_time_unit(unit.id)
                  IN  IF r.exc # "" THEN r
                      ELSE Ok(DateTimeTruncate(expr, measure, r.val))

\* the outcome of a call together with the _dtype read from the node returned
WithDtype(r) ==
    IF r.exc # "" THEN r
    ELSE IF r.val.cls = "DateTimeTruncate"
         THEN [r EXCEPT !.dtype = DateTimeTruncate_dtype(r.val.kids[3].id)]
    ELSE [r EXCEPT !.dtype = DateTime_dtype[r.val.cls]]

(***************************************************************************)
(* Inputs of the datetime functions                                        *)
(***************************************************************************)
Pad(k) == [i \in 1..k |-> " "]

Plural(k) == [i \in 1..k |-> "s"]

upper_char(c) ==
    IF \E i \in 1..Len(LowerChars) : LowerChars[i] = c
    THEN UpperChars[CHOOSE i \in 1..Len(LowerChars) : LowerChars[i] = c]
    ELSE c

Capitalize(s) == [i \in 1..Len(s) |-> IF i = 1 THEN upper_char(s[i]) ELSE s[i]]

Junk == {<<>>, <<"m">>, <<"u">>, <<"n">>, <<"f","o","o">>, <<"m","i","n">>}

Bases == UnitSet \cup DOMAIN unit_aliases \cup Junk

Tokens ==
    {Pad(l) \o b \o Pad(g) \o Plural(j) \o Pad(r) :
        b \in Bases \cup {Capitalize(x) : x \in Bases},
        j \in 0..MaxPlural, l \in 0..MaxPad, g \in 0..MaxPad, r \in 0..MaxPad}

ExprInputs == {ScalarSymbol(<<"s">>, "datetime"), ScalarSymbol(<<"d">>, "date"),
               ScalarSymbol(<<"n">>, "int64")}

Measures == {IntV(1), IntV(10)}

TruncateCalls ==
    {[expr |-> ScalarSymbol(<<"s">>, "datetime"), args |-> <<m, StrV(t)>>, kwargs |-> <<>>] :
        m \in Measures, t \in Tokens}
    \cup {[expr |-> ScalarSymbol(<<"s">>, "datetime"), args |-> <<>>, kwargs |-> << <<t, m>> >>] :
        m \in Measures, t \in Tokens}
    \cup {[expr |-> e, args |-> a, kwargs |-> k] :
        e \in ExprInputs,
        a \in {<<>>, <<IntV(1)>>, <<StrV(u_week), IntV(1)>>, <<IntV(1), StrV(u_week)>>,
               <<IntV(1), StrV(u_week), IntV(1)>>},
        k \in {<<>>, << <<u_week, IntV(2)>> >>,
               << <<u_week, IntV(2)>>, <<u_day, IntV(1)>> >>}}

AccessorNames == {"date", "year", "month", "day", "time", "hour", "minute", "second",
                  "millisecond", "microsecond", "utcfromtimestamp"}

(***************************************************************************)
(* parser.py: syntax trees.  A node of Python's ast module is a record:    *)
(* kind is the node class, id the identifier of a Name or the text of a    *)
(* Str, n the number of a Num, ops the operator node classes (op of a      *)
(* BinOp, UnaryOp or BoolOp, ops of a Compare), kids the child nodes in    *)
(* field order (left, right; operand; left, comparators; values; func,     *)
(* args; elts; ...), keywords the number of keyword arguments of a Call,   *)
(* starargs and kwargs whether the Call has a *args and a **kwargs splice. *)
(***************************************************************************)
Node(kind, id, n, ops, kids) ==
    [kind |-> kind, id |-> id, n |-> n, ops |-> ops, kids |-> kids,
     keywords |-> 0, starargs |-> FALSE, kwargs |-> FALSE]

Name(id) == Node("Name", id, 0, <<>>, <<>>)

Num(n) == Node("Num", <<>>, n, <<>>, <<>>)

Str(s) == Node("Str", s, 0, <<>>, <<>>)

BinOp(left, o, right) == Node("BinOp", <<>>, 0, <<o>>, <<left, right>>)

UnaryOp(o, operand) == Node("UnaryOp", <<>>, 0, <<o>>, <<operand>>)

Compare(left, ops, comparators) == Node("Compare", <<>>, 0, ops, <<left>> \o comparators)

BoolOp(o, values) == Node("BoolOp", <<>>, 0, <<o>>, values)

Call(func, args) == Node("Call", <<>>, 0, <<>>, <<func>> \o args)

(***************************************************************************)
(* parser.py: the tables and the scope                                     *)
(***************************************************************************)
disallowed == <<"Attribute", "Lambda", "IfExp", "Dict", "Set", "ListComp",
                "SetComp", "DictComp", "GeneratorExp", "Yield">>

\* operator node class -> name of the blaze node class
comparison_ops ==
    [o \in {"Eq", "Ne", "Lt", "Gt", "Le", "Ge", "And", "Or", "USub", "Add", "Mult",
            "Div", "Pow", "Mod", "Sub"} |->
        CASE o = "USub" -> "Neg"
          [] o = "Mult" -> "Mul"
          [] OTHER -> o]

n_x == <<"x">>
n_y == <<"y">>
n_undeclared == <<"u">>
n_sin == <<"s","i","n">>
n_cos == <<"c","o","s">>
n_secret == <<"_","_","s","e","c","r","e","t">>
n_builtins == <<"b","u","i","l","t","i","n","s">>
n_dunder_builtins == <<"_","_">> \o n_builtins \o <<"_","_">>

\* the classes of blaze.expr.scalar.numbers that are subclasses of Scalar
math_operators ==
    ( n_sin :> ClassV("sin") @@ n_cos :> ClassV("cos")
      @@ <<"A","d","d">> :> ClassV("Add") @@ <<"N","e","g">> :> ClassV("Neg") )

safe_scope == ( n_dunder_builtins :> DictV @@ n_builtins :> DictV )

\* toolz.merge: the later mapping wins
merge(d1, d2) == d2 @@ d1

\* the number of children a node class of blaze.expr.scalar.numbers takes
class_arity(cls) ==
    IF cls \in {"Add", "Sub", "Mul", "Div", "Pow", "Mod", "And", "Or",
                "Eq", "Ne", "Lt", "Gt", "Le", "Ge"}
    THEN 2 ELSE 1

\* the Python call f(*args): a class builds its node, any other value raises
\* TypeError "'<msg>' object is not callable"
Apply(f, args) ==
    IF f.kind = "class"
    THEN IF Len(args) = class_arity(f.cls) THEN Ok(InstV(f.cls, args))
         ELSE Raise("TypeError", "arguments")
    ELSE Raise("TypeError", f.cls)

(***************************************************************************)
(* parser.py: BlazeParser                                                  *)
(***************************************************************************)
RECURSIVE visit(_, _, _)

\* the visits of a list of nodes, in order; the first exception ends them
RECURSIVE visit_each(_, _, _)
visit_each(nodes, dtypes, scope) ==
    IF nodes = <<>> THEN Ok(InstV("list", <<>>))
    ELSE LET h == visit(Head(nodes), dtypes, scope)
         IN  IF h.exc # "" THEN h
             ELSE LET t == visit_each(Tail(nodes), dtypes, scope)
                  IN  IF t.exc # "" THEN t
                      ELSE Ok(InstV("list", <<h.val>> \o t.val.kids))

\* visit of an operator node: the methods generate_methods makes from
\* comparison_ops return the class; any other operator node has no method and
\* no fields, and ast.NodeVisitor.generic_visit returns None
visit_op(o) ==
    IF o \in DOMAIN comparison_ops THEN Ok(ClassV(comparison_ops[o])) ELSE Ok(NoneV)

disallower(node) == Raise("NotImplementedError", "")

\* ast.NodeVisitor.generic_visit: visits the child nodes and returns None (the
\* visit of an operator or context child never raises)
generic_visit(node, dtypes, scope) ==
    LET r == visit_each(node.kids, dtypes, scope)
    IN  IF r.exc # "" THEN r ELSE Ok(NoneV)

visit_Compare(node, dtypes, scope) ==
    IF Len(node.ops) # 1 THEN Raise("AssertionError", "chained comparisons not supported")
    ELSE IF Len(node.kids) - 1 # 1 THEN Raise("AssertionError", "chained comparisons not supported")
    ELSE LET f == visit_op(node.ops[1])
             a == visit_each(node.kids, dtypes, scope)
         IN  IF a.exc # "" THEN a ELSE Apply(f.val, a.val.kids)

visit_Num(node) == Ok(IntV(node.n))

visit_Str(node) == Ok(StrV(node.id))

\* visit_Name without the test of the double underscore prefix
visit_Name_no_prefix_test(node, dtypes, scope) ==
    LET name == node.id
    IN  IF name \in DOMAIN scope THEN Ok(scope[name])
        ELSE IF name \in DOMAIN dtypes THEN Ok(ScalarSymbol(name, dtypes[name]))
        ELSE Raise("KeyError", "")

visit_Name(node, dtypes, scope) ==
    LET name == node.id
    IN  IF startswith_dunder(name) THEN Raise("ValueError", "invalid name")
        ELSE IF name \in DOMAIN scope THEN Ok(scope[name])
        ELSE IF name \in DOMAIN dtypes THEN Ok(ScalarSymbol(name, dtypes[name]))
        ELSE Raise("KeyError", "")

visit_BinOp(node, dtypes, scope) ==
    LET f == visit_op(node.ops[1])
        a == visit_each(node.kids, dtypes, scope)
    IN  IF a.exc # "" THEN a ELSE Apply(f.val, a.val.kids)

\* visit_UnaryOp folding every unary operator but minus to the operand itself
visit_UnaryOp_keeps_operand(node, dtypes, scope) ==
    LET o == node.ops[1]
        operand == node.kids[1]
    IN  IF operand.kind = "Num"
        THEN Ok(IntV(IF o = "USub" THEN -1 * operand.n ELSE operand.n))
        ELSE LET f == visit_op(o)
                 a == visit(operand, dtypes, scope)
             IN  IF a.exc # "" THEN a ELSE Apply(f.val, <<a.val>>)

visit_UnaryOp(node, dtypes, scope) ==
    LET o == node.ops[1]
        operand == node.kids[1]
    IN  IF operand.kind = "Num"
        THEN Ok(IntV(-1 * (IF o = "USub" THEN 1 ELSE 0) * operand.n))
        ELSE LET f == visit_op(o)
                 a == visit(operand, dtypes, scope)
             IN  IF a.exc # "" THEN a ELSE Apply(f.val, <<a.val>>)

visit_Call(node, dtypes, scope) ==
    IF ~(Len(node.kids) - 1 <= 1) THEN Raise("AssertionError", "only single argument functions allowed")
    ELSE IF node.keywords # 0 THEN Raise("AssertionError", "")
    ELSE IF node.starargs THEN Raise("AssertionError", "starargs not allowed")
    ELSE IF node.kwargs THEN Raise("AssertionError", "kwargs not allowed")
    ELSE LET f == visit(node.kids[1], dtypes, scope)
         IN  IF f.exc # "" THEN f
             ELSE LET a == visit_each(Tail(node.kids), dtypes, scope)
                  IN  IF a.exc # "" THEN a ELSE Apply(f.val, a.val.kids)

\* ast.NodeVisitor.visit: the method visit_<kind> of the class, the methods
\* generate_methods adds for the disallowed kinds included, else generic_visit
visit(node, dtypes, scope) ==
    CASE node.kind = "Compare" -> visit_Compare(node, dtypes, scope)
      [] node.kind = "Num" -> visit_Num(node)
      [] node.kind = "Str" -> visit_Str(node)
      [] node.kind = "Name" -> visit_Name(node, dtypes, scope)
      [] node.kind = "BinOp" -> visit_BinOp(node, dtypes, scope)
      [] node.kind = "UnaryOp" -> visit_UnaryOp(node, dtypes, scope)
      [] node.kind = "Call" -> visit_Call(node, dtypes, scope)
      [] \E i \in 1..Len(disallowed) : disallowed[i] = node.kind -> disallower(node)
      [] OTHER -> generic_visit(node, dtypes, scope)

(***************************************************************************)
(* parser.py: exprify.  The text is given as what Python's ast.parse makes *)
(* of it: source_ok says whether it is a single well-formed expression,    *)
(* body is its syntax tree.                                                *)
(***************************************************************************)
ast_parse(expr) ==
    IF expr.source_ok THEN Ok(expr.body) ELSE Raise("SyntaxError", "invalid syntax")

\* exprify testing the overlapping names only after the visit of the tree
exprify_overlap_after_visit(expr, dtypes) ==
    LET scope == merge(safe_scope, math_operators)
        parsed == ast_parse(expr)
        overlapping_names == DOMAIN dtypes \cap DOMAIN scope
        visited == IF parsed.exc # "" THEN parsed ELSE visit(parsed.val, dtypes, scope)
    IN  IF parsed.exc # "" THEN [parsed EXCEPT !.stages = <<"parse">>]
        ELSE IF visited.exc # "" THEN [visited EXCEPT !.stages = <<"parse", "visit">>]
        ELSE IF overlapping_names # {}
             THEN [Raise("ValueError", "overlapping names") EXCEPT !.stages = <<"parse", "visit", "overlap">>]
        ELSE [visited EXCEPT !.stages = <<"parse", "visit", "overlap">>]

\* stages records the statements of exprify that ran, in order
exprify(expr, dtypes) ==
    LET scope == merge(safe_scope, math_operators)
        parsed == ast_parse(expr)
        overlapping_names == DOMAIN dtypes \cap DOMAIN scope
    IN  IF parsed.exc # "" THEN [parsed EXCEPT !.stages = <<"parse">>]
        ELSE IF overlapping_names # {}
             THEN [Raise("ValueError", "overlapping names") EXCEPT !.stages = <<"parse", "overlap">>]
        ELSE [visit(parsed.val, dtypes, scope) EXCEPT !.stages = <<"parse", "overlap", "visit">>]

(***************************************************************************)
(* Inputs of exprify                                                       *)
(***************************************************************************)
Leaves ==
    {Name(n_x), Name(n_y), Name(n_undeclared), Name(n_sin), Name(n_secret),
     Name(n_builtins), Name(n_dunder_builtins), Num(5), Str(<<"a">>)}

Atoms == Leaves \cup {Node(disallowed[i], <<>>, 0, <<>>, <<Name(n_x)>>) : i \in 1..Len(disallowed)}

Wrap(t) ==
    {BinOp(t, "Add", Name(n_y)), BinOp(t, "FloorDiv", Name(n_y)),
     UnaryOp("USub", t), UnaryOp("UAdd", t),
     Compare(t, <<"Lt">>, <<Name(n_y)>>), Compare(t, <<"Lt", "Lt">>, <<Name(n_y), Name(n_x)>>),
     BoolOp("And", <<t, Name(n_y)>>), BoolOp("Or", <<t, Name(n_y)>>),
     Call(Name(n_sin), <<t>>), Call(t, <<Name(n_x)>>), Call(Name(n_sin), <<t, Name(n_x)>>),
     [Call(Name(n_sin), <<t>>) EXCEPT !.keywords = 1],
     [Call(Name(n_sin), <<t>>) EXCEPT !.starargs = TRUE],
     [Call(Name(n_sin), <<t>>) EXCEPT !.kwargs = TRUE],
     Node("List", <<>>, 0, <<>>, <<t, Num(1)>>)}

\* nesting depth of a syntax tree: 0 for a leaf or a disallowed construct
RECURSIVE Depth(_)
Depth(node) ==
    IF node.kind \in {"Name", "Num", "Str"} \/ node \in Atoms THEN 0
    ELSE LET ds == {Depth(node.kids[i]) : i \in 1..Len(node.kids)}
         IN  1 + CHOOSE m \in ds : \A k \in ds : k <= m

\* symbol_types that share no name with the scope
CleanDtypes ==
    {(n_x :> "int64" @@ n_y :> "real"),
     (n_x :> "int64" @@ n_y :> "real" @@ n_secret :> "int64")}

\* symbol_types that share a name with the scope
OverlappingDtypes ==
    {(n_x :> "int64" @@ n_sin :> "real"),
     (n_x :> "int64" @@ n_builtins :> "int64"),
     (n_secret :> "int64" @@ n_dunder_builtins :> "int64")}

Malformed == [source_ok |-> FALSE, body |-> Name(<<>>)]

\* the calls of exprify on the smallest texts; Compose grows the text
ExprifyCalls ==
    {[expr |-> [source_ok |-> TRUE, body |-> t], dtypes |-> d] :
        t \in Atoms, d \in CleanDtypes \cup OverlappingDtypes}
    \cup {[expr |-> Malformed, dtypes |-> d] : d \in CleanDtypes \cup OverlappingDtypes}

(***************************************************************************)
(* The state machine: a call is drawn in Init and one action runs it.      *)
(***************************************************************************)
Init ==
    /\ pc = "call"
    /\ result = NoResult
    /\ \/ op = "normalize_time_unit" /\ arg \in Tokens
       \/ op = "truncate" /\ arg \in TruncateCalls
       \/ op \in AccessorNames /\ arg \in ExprInputs
       \/ op = "exprify" /\ arg \in ExprifyCalls

\* The caller writes a larger expression around the one it has.  With
\* overlapping symbol_types exprify never visits the tree, so one level is kept.
Compose ==
    /\ pc = "call"
    /\ op = "exprify"
    /\ arg.expr.source_ok
    /\ Depth(arg.expr.body) < MaxDepth
    /\ arg.dtypes \in OverlappingDtypes => Depth(arg.expr.body) < 1
    /\ \E t \in Wrap(arg.expr.body) : arg' = [arg EXCEPT !.expr.body = t]
    /\ UNCHANGED <<pc, op, result>>

Exprify ==
    /\ pc = "call"
    /\ op = "exprify"
    /\ result' = exprify(arg.expr, arg.dtypes)
    /\ pc' = "done"
    /\ UNCHANGED <<op, arg>>

NormalizeTimeUnit ==
    /\ pc = "call"
    /\ op = "normalize_time_unit"
    /\ result' = normalize_time_unit(arg)
    /\ pc' = "done"
    /\ UNCHANGED <<op, arg>>

Truncate ==
    /\ pc = "call"
    /\ op = "truncate"
    /\ result' = WithDtype(truncate(arg.expr, arg.args, arg.kwargs))
    /\ pc' = "done"
    /\ UNCHANGED <<op, arg>>

Date ==
    /\ pc = "call"
    /\ op = "date"
    /\ result' = WithDtype(Ok(date(arg)))
    /\ pc' = "done"
    /\ UNCHANGED <<op, arg>>

Year ==
    /\ pc = "call"
    /\ op = "year"
    /\ result' = WithDtype(Ok(year(arg)))
    /\ pc' = "done"
    /\ UNCHANGED <<op, arg>>

Month ==
    /\ pc = "call"
    /\ op = "month"
    /\ result' = WithDtype(Ok(month(arg)))
    /\ pc' = "done"
    /\ UNCHANGED <<op, arg>>

Day ==
    /\ pc = "call"
    /\ op = "day"
    /\ result' = WithDtype(Ok(day(arg)))
    /\ pc' = "done"
    /\ UNCHANGED <<op, arg>>

Time ==
    /\ pc = "call"
    /\ op = "time"
    /\ result' = WithDtype(Ok(time(arg)))
    /\ pc' = "done"
    /\ UNCHANGED <<op, arg>>

Hour ==
    /\ pc = "call"
    /\ op = "hour"
    /\ result' = WithDtype(Ok(hour(arg)))
    /\ pc' = "done"
    /\ UNCHANGED <<op, arg>>

Minute ==
    /\ pc = "call"
    /\ op = "minute"
    /\ result' = WithDtype(Ok(minute(arg)))
    /\ pc' = "done"
    /\ UNCHANGED <<op, arg>>

Second ==
    /\ pc = "call"
    /\ op = "second"
    /\ result' = WithDtype(Ok(second(arg)))
    /\ pc' = "done"
    /\ UNCHANGED <<op, arg>>

Millisecond ==
    /\ pc = "call"
    /\ op = "millisecond"
    /\ result' = WithDtype(Ok(millisecond(arg)))
    /\ pc' = "done"
    /\ UNCHANGED <<op, arg>>

Microsecond ==
    /\ pc = "call"
    /\ op = "microsecond"
    /\ result' = WithDtype(Ok(microsecond(arg)))
    /\ pc' = "done"
    /\ UNCHANGED <<op, arg>>

UTCFromTimestamp ==
    /\ pc = "call"
    /\ op = "utcfromtimestamp"
    /\ result' = WithDtype(Ok(utcfromtimestamp(arg)))
    /\ pc' = "done"
    /\ UNCHANGED <<op, arg>>

Next ==
    \/ Compose
    \/ Exprify
    \/ NormalizeTimeUnit
    \/ Truncate
    \/ Date
    \/ Year
    \/ Month
    \/ Day
    \/ Time
    \/ Hour
    \/ Minute
    \/ Second
    \/ Millisecond
    \/ Microsecond
    \/ UTCFromTimestamp

Spec == Init /\ [][Next]_vars

(***************************************************************************)
(* Properties                                                              *)
(***************************************************************************)
Done(name) == pc = "done" /\ op = name

RECURSIVE HasKind(_, _)
HasKind(node, kinds) ==
    node.kind \in kinds \/ \E i \in 1..Len(node.kids) : HasKind(node.kids[i], kinds)

RECURSIVE HasDunderName(_)
HasDunderName(node) ==
    \/ node.kind = "Name" /\ startswith_dunder(node.id)
    \/ \E i \in 1..Len(node.kids) : HasDunderName(node.kids[i])

Overlapping(dtypes) == DOMAIN dtypes \cap DOMAIN merge(safe_scope, math_operators) # {}

\* a Name node of an identifier that symbol_types declares and the scope lacks
DeclaredName(node, dtypes) ==
    /\ node.kind = "Name"
    /\ ~startswith_dunder(node.id)
    /\ node.id \in DOMAIN dtypes
    /\ node.id \notin DOMAIN merge(safe_scope, math_operators)

\* the constructs of the denial list of the specification
DenialList == {"Attribute", "Lambda", "IfExp", "List", "Set", "Dict", "ListComp",
               "SetComp", "DictComp", "GeneratorExp", "Yield"}

\* C1: exprify of a text whose syntax tree contains a construct of the denial
\* list (list literals included) ends in an error and returns no value.
C1_DeniedConstructRejected ==
    (Done("exprify") /\ arg.expr.source_ok /\ HasKind(arg.expr.body, DenialList))
        => result.exc # ""

\* C2 as stated: when symbol_types shares a name with the fixed scope, exprify
\* fails with the name-collision error for every text, a malformed one included.
C2_CollisionBeforeParsing ==
    (Done("exprify") /\ Overlapping(arg.dtypes))
        => result.exc = "ValueError" /\ result.msg = "overlapping names"

\* C2 as amended: when symbol_types shares a name with the fixed scope, exprify
\* never returns a value; a well-formed text ends in the name-collision error
\* before any node of its tree is visited, and a malformed text ends in the
\* syntax error, the text being parsed before the names are compared.
C2_CollisionBeforeVisit ==
    (Done("exprify") /\ Overlapping(arg.dtypes))
        => IF arg.expr.source_ok
           THEN /\ result.exc = "ValueError"
                /\ result.msg = "overlapping names"
                /\ result.stages = <<"parse", "overlap">>
           ELSE /\ result.exc = "SyntaxError"
                /\ result.stages = <<"parse">>

\* a well-formed text holding a disallowed construct, with overlapping names,
\* ended in the name-collision error
C2_Witness ==
    /\ Done("exprify")
    /\ Overlapping(arg.dtypes)
    /\ arg.expr.source_ok
    /\ HasKind(arg.expr.body, {"Attribute"})
    /\ result.exc = "ValueError"
    /\ result.msg = "overlapping names"

\* C3: an identifier that begins with the double underscore is rejected wherever
\* it occurs, declared or not, in the scope or not: exprify ends in an error, and
\* as the bare name, a left operand or a callee the error is the invalid-name one.
C3_DunderNameRejected ==
    (Done("exprify") /\ arg.expr.source_ok /\ HasDunderName(arg.expr.body))
        => /\ result.exc # ""
           /\ LET body == arg.expr.body
                  first == IF body.kind = "Name" THEN body ELSE body.kids[1]
              IN  ( /\ ~Overlapping(arg.dtypes)
                    /\ \/ body.kind = "Name"
                       \/ body.kind = "BinOp"
                       \/ body.kind = "Call" /\ Len(body.kids) = 2 /\ body.keywords = 0
                          /\ ~body.starargs /\ ~body.kwargs
                    /\ first.kind = "Name" /\ startswith_dunder(first.id) )
                  => result.exc = "ValueError" /\ result.msg = "invalid name"

\* the bare name __secret, declared in symbol_types, was rejected
C3_Witness ==
    /\ Done("exprify")
    /\ arg.expr.source_ok
    /\ arg.expr.body = Name(n_secret)
    /\ n_secret \in DOMAIN arg.dtypes
    /\ result.exc = "ValueError"
    /\ result.msg = "invalid name"

\* C4: a boolean expression over two declared symbols parses to the And node,
\* respectively the Or node, of the two parsed operands in order.
C4_BoolOpBuildsNode ==
    ( /\ Done("exprify")
      /\ arg.expr.source_ok
      /\ ~Overlapping(arg.dtypes)
      /\ arg.expr.body.kind = "BoolOp"
      /\ Len(arg.expr.body.kids) = 2
      /\ \A i \in 1..2 : DeclaredName(arg.expr.body.kids[i], arg.dtypes) )
        => LET body == arg.expr.body
           IN  /\ result.exc = ""
               /\ result.val = InstV(body.ops[1],
                      <<ScalarSymbol(body.kids[1].id, arg.dtypes[body.kids[1].id]),
                        ScalarSymbol(body.kids[2].id, arg.dtypes[body.kids[2].id])>>)

\* C5: the callee of a call is resolved against the fixed scope only: for a
\* callee name that the scope lacks no Symbol is made from symbol_types and
\* applied to the argument.
C5_CalleeFromScopeOnly ==
    ( /\ Done("exprify")
      /\ arg.expr.source_ok
      /\ ~Overlapping(arg.dtypes)
      /\ arg.expr.body.kind = "Call"
      /\ arg.expr.body.kids[1].kind = "Name"
      /\ arg.expr.body.kids[1].id \notin DOMAIN merge(safe_scope, math_operators) )
        => ~(result.exc = "TypeError" /\ result.msg = "ScalarSymbol")

\* the algorithm of the specification: lowercase and trim; a canonical unit is
\* returned; an alias is mapped; else one trailing s is stripped and the steps
\* repeat
RECURSIVE reference_normalize(_)
reference_normalize(token) ==
    LET s == strip(lower(token))
    IN  IF s \in UnitSet THEN [ok |-> TRUE, unit |-> s]
        ELSE IF s \in DOMAIN unit_aliases THEN [ok |-> TRUE, unit |-> unit_aliases[s]]
        ELSE IF s # <<>> /\ s[Len(s)] = "s" THEN reference_normalize(SubSeq(s, 1, Len(s) - 1))
        ELSE [ok |-> FALSE, unit |-> <<>>]

\* C6: normalize_time_unit agrees on every token with the algorithm of the
\* specification, which strips one trailing s at a time.
C6_AgreesWithReference ==
    Done("normalize_time_unit")
        => LET ref == reference_normalize(arg)
           IN  /\ (result.exc = "") = ref.ok
               /\ ref.ok => result.val = StrV(ref.unit)

\* C7: for a token that does not normalize to a canonical unit,
\* normalize_time_unit halts within as many recursive calls as the token is
\* long, and in the unrecognized-unit error (ValueError), no other failure.
C7_UnrecognizedUnitError ==
    (Done("normalize_time_unit") /\ result.exc # "")
        => /\ result.exc = "ValueError"
           /\ result.msg = "Do not understand time unit"
           /\ result.depth <= Len(arg)

CoarseUnits == {u_year, u_month, u_week, u_day}

FineUnits == {u_hour, u_minute, u_second, u_millisecond, u_microsecond, u_nanosecond}

\* C8: for every unit token truncate accepts, positional or keyword form, the
\* DateTimeTruncate node stores the child, the measure and a canonical unit, and
\* its type is date for year, month, week and day and datetime for the finer units.
C8_TruncateCanonicalUnitAndType ==
    (Done("truncate") /\ result.exc = "")
        => LET node == result.val
               unit == node.kids[3].id
           IN  /\ node.cls = "DateTimeTruncate"
               /\ node.kids[1] = arg.expr
               /\ node.kids[2] = (IF arg.args # <<>> THEN arg.args[1] ELSE arg.kwargs[1][2])
               /\ node.kids[3].kind = "str"
               /\ unit \in CoarseUnits \cup FineUnits
               /\ unit \in CoarseUnits => result.dtype = "date"
               /\ unit \in FineUnits => result.dtype = "datetime"

\* the keyword form with a plural token gave a node of unit day and type date
C8_Witness ==
    /\ Done("truncate")
    /\ arg.kwargs # <<>>
    /\ arg.kwargs[1][1] # u_day
    /\ result.exc = ""
    /\ result.val.kids[3].id = u_day
    /\ result.dtype = "date"

\* the node class and the fixed type the specification gives each accessor
AccessorKind ==
    [f \in AccessorNames |->
        CASE f = "date" -> <<"Date", "date">>
          [] f = "year" -> <<"Year", "int32">>
          [] f = "month" -> <<"Month", "int32">>
          [] f = "day" -> <<"Day", "int32">>
          [] f = "time" -> <<"Time", "time">>
          [] f = "hour" -> <<"Hour", "int32">>
          [] f = "minute" -> <<"Minute", "int32">>
          [] f = "second" -> <<"Second", "int32">>
          [] f = "millisecond" -> <<"Millisecond", "int64">>
          [] f = "microsecond" -> <<"Microsecond", "int64">>
          [] f = "utcfromtimestamp" -> <<"UTCFromTimestamp", "datetime">>]

\* C9: each accessor function returns the node of its kind whose single child is
\* the expression it was given and whose type is the fixed type of the kind.
C9_AccessorWrapsArgument ==
    (pc = "done" /\ op \in AccessorNames)
        => /\ result.exc = ""
           /\ result.val.cls = AccessorKind[op][1]
           /\ result.val.kids = <<arg>>
           /\ result.dtype = AccessorKind[op][2]

\* C10: a unary operator on a numeric literal n builds no node and gives -n for
\* minus and 0 for any other operator; on another operand the class of the
\* operator is looked up and applied to the parsed operand.
C10_UnaryOnLiteralFolds ==
    ( /\ Done("exprify")
      /\ arg.expr.source_ok
      /\ ~Overlapping(arg.dtypes)
      /\ arg.expr.body.kind = "UnaryOp" )
        => LET o == arg.expr.body.ops[1]
               operand == arg.expr.body.kids[1]
               parsed == visit(operand, arg.dtypes, merge(safe_scope, math_operators))
           IN  /\ operand.kind = "Num"
                    => /\ result.exc = ""
                       /\ result.val = IntV(IF o = "USub" THEN 0 - operand.n ELSE 0)
               /\ (operand.kind # "Num" /\ parsed.exc = "" /\ o = "USub")
                    => result.exc = "" /\ result.val = InstV("Neg", <<parsed.val>>)
               /\ (operand.kind # "Num" /\ parsed.exc = "" /\ o = "UAdd")
                    => result.exc = "TypeError" /\ result.msg = "NoneType"
               /\ (operand.kind # "Num" /\ parsed.exc # "")
                    => result.exc = parsed.exc

\* +5 parsed to the number 0
C10_Witness ==
    /\ Done("exprify")
    /\ arg.expr.source_ok
    /\ arg.expr.body = UnaryOp("UAdd", Num(5))
    /\ result.exc = ""
    /\ result.val = IntV(0)

====
